---- MODULE Spec2Model ----
(***************************************************************************)
(* Model of static/js/prescription.js: class PrescriptionCanvas.           *)
(*                                                                         *)
(* The program state is the fields of the PrescriptionCanvas object, the   *)
(* pixel content and the compositing state of its two 2d contexts, the     *)
(* Image objects whose onload has not fired yet, the localStorage key and  *)
(* the notification shown, the values of the six form fields and the file  *)
(* last downloaded.  Every method is an operator from state record  *)
(* to state record (named as in the source); every event handler is an     *)
(* action that commits the record its method returns.                      *)
(*                                                                         *)
(* Indices (historyStep, currentPageIndex) are 0-based as in the source;   *)
(* At(arr, i) reads arr[i] of a JavaScript array.                          *)
(***************************************************************************)
EXTENDS Integers, Sequences, FiniteSets, TLC

VARIABLES canvas, ctx, sigCanvas, sigCtx, isDrawing, currentTool,
          currentColor, currentSize,
          pages, currentPageIndex, history, historyStep, savedSignature,
          pending, sigPending, storage, notification, form, download,
          script

progVars == <<canvas, ctx, sigCanvas, sigCtx, isDrawing, currentTool,
              currentColor, currentSize,
              pages, currentPageIndex, history, historyStep, savedSignature,
              pending, sigPending, storage, notification, form, download>>
vars == <<canvas, ctx, sigCanvas, sigCtx, isDrawing, currentTool,
          currentColor, currentSize,
          pages, currentPageIndex, history, historyStep, savedSignature,
          pending, sigPending, storage, notification, form, download,
          script>>

(***************************************************************************)
(* Bounds of the exploration.                                              *)
(***************************************************************************)
\* distinct painted contents alive at once in the bounded explorations
MaxId == 2
\* pages in the bounded explorations
MaxPages == 2
\* Image objects waiting for onload at once
MaxPending == 1
\* history length explored by the specifications that do not go to the limit
MaxWideHistory == 3
\* operations after the stroke prefix in the deep exploration
MaxFree == 3
\* pointer events in the exploration of interleaved strokes
MaxEvents == 5

\* prescription.js line 393: if (this.history.length > 50)
HistoryLimit == 50

(***************************************************************************)
(* Pixel content.  An image is the content of a canvas, and a data URL is  *)
(* represented by the image it encodes (PNG keeps colour and alpha).       *)
(*   id    : which pattern of painted / erased pixels it holds (0: none)   *)
(*   holes : whether some pixel is not opaque                              *)
(* A canvas element starts fully transparent; a white fill makes it White. *)
(***************************************************************************)
Transparent == [id |-> 0, holes |-> TRUE]
White       == [id |-> 0, holes |-> FALSE]
\* the empty string '' stored in a page slot that has no content yet
EmptyString == [id |-> -1, holes |-> FALSE]
\* null (savedSignature, a missing localStorage key)
Null        == [id |-> -2, holes |-> FALSE]

IsImage(x) == x.id >= 0

\* the image shown when img is looked at on the white page: transparent
\* pixels show white
Flatten(img) == [img EXCEPT !.holes = FALSE]

\* canvas.toDataURL(): the PNG of the pixels, alpha included
toDataURL(c) == c

(***************************************************************************)
(* The state of a 2d context that compositing depends on.  Alpha is in     *)
(* tenths and lineWidth in halves of a pixel (1.5 * size is a whole number *)
(* of halves).  A fresh context is source-over with alpha 1.0, black, one  *)
(* pixel wide, and its current path is empty; hasPoint tells whether the   *)
(* current path holds a point, so that lineTo adds a segment and stroke()  *)
(* paints it.                                                              *)
(***************************************************************************)
DefaultCtx == [globalCompositeOperation |-> "source-over", globalAlpha |-> 10,
               strokeStyle |-> "#000000", lineWidth |-> 2,
               hasPoint |-> FALSE]

Tools == {"pen", "brush", "highlighter", "eraser"}

\* s holds this.currentTool, this.currentColor and this.currentSize
setDrawingProperties(s, c) ==
    CASE s.currentTool = "pen" ->
           [c EXCEPT !.globalCompositeOperation = "source-over",
                     !.globalAlpha = 10,
                     !.strokeStyle = s.currentColor,
                     !.lineWidth = 2 * s.currentSize]
      [] s.currentTool = "brush" ->
           [c EXCEPT !.globalCompositeOperation = "source-over",
                     !.globalAlpha = 8,
                     !.strokeStyle = s.currentColor,
                     !.lineWidth = 3 * s.currentSize]
      [] s.currentTool = "highlighter" ->
           [c EXCEPT !.globalCompositeOperation = "source-over",
                     !.globalAlpha = 3,
                     !.strokeStyle = s.currentColor,
                     !.lineWidth = 6 * s.currentSize]
      [] s.currentTool = "eraser" ->
           [c EXCEPT !.globalCompositeOperation = "destination-out",
                     !.globalAlpha = 10,
                     !.lineWidth = 4 * s.currentSize]
      [] OTHER -> c

(***************************************************************************)
(* Compositing.  fillRect and drawImage honour the context's               *)
(* globalCompositeOperation and globalAlpha.  n is the identity given to   *)
(* the result when it is a pattern of pixels none of the arguments holds.  *)
(***************************************************************************)
\* ctx.fillStyle = 'white'; ctx.fillRect(0, 0, width, height)
fillRect(img, c, n) ==
    IF c.globalCompositeOperation = "destination-out"
    THEN Transparent                        \* every pixel is removed
    ELSE IF c.globalAlpha = 10
    THEN White
    ELSE IF img = White
    THEN White                              \* white washed over white
    ELSE [id |-> n, holes |-> img.holes]    \* the old content shows through

\* ctx.drawImage(img, 0, 0) on a canvas holding dst
drawImage(dst, img, c, n) ==
    IF c.globalCompositeOperation = "destination-out"
    THEN IF dst = Transparent \/ img = Transparent
         THEN dst
         ELSE [id |-> n, holes |-> TRUE]
    ELSE IF img = Transparent
    THEN dst
    ELSE IF c.globalAlpha = 10
    THEN IF ~img.holes THEN img
         ELSE IF dst = White THEN Flatten(img)
         ELSE [id |-> n, holes |-> dst.holes]
    ELSE IF img = dst /\ ~img.holes
    THEN dst                                \* an opaque image over itself
    ELSE [id |-> n, holes |-> dst.holes]    \* a blend of the two

\* lineTo + stroke, fillText, arc + stroke: some pixels are painted, or with
\* destination-out removed
paint(img, c, n) ==
    [id |-> n,
     holes |-> IF c.globalCompositeOperation = "destination-out"
               THEN TRUE ELSE img.holes]

(***************************************************************************)
(* JavaScript arrays as sequences.                                         *)
(***************************************************************************)
At(arr, i) == arr[i + 1]

\* arr[i] = v: an index at the end of the array extends it
ArraySet(arr, i, v) ==
    IF i < Len(arr) THEN [arr EXCEPT ![i + 1] = v]
    ELSE arr \o [k \in 1..(i - Len(arr)) |-> EmptyString] \o <<v>>

\* arr.splice(i, 1)
Splice1(arr, i) ==
    [k \in 1..(Len(arr) - 1) |-> IF k <= i THEN arr[k] ELSE arr[k + 1]]

Range(f) == {f[k] : k \in DOMAIN f}

(***************************************************************************)
(* The form fields, by element id, and the files of savePrescription and   *)
(* loadPrescription.  A field that is empty holds "".                      *)
(***************************************************************************)
FieldIds == {"doctor-name", "clinic-name", "patient-name", "patient-age",
             "prescription-date", "prescription-time"}

\* the file's key of each field: data.doctorName, ..., data.date, data.time
NoFields == [id \in FieldIds |-> ""]

\* A file handed to loadPrescription, as JSON.parse sees its text:
\*   kind "malformed" : JSON.parse throws
\*   kind "null"      : parses to null, so data.pages throws
\*   kind "object"    : parses to a value with (hasPages) or without a page
\*                      list, with a signature or none (Null), and with the
\*                      field values it holds ("" for a key it lacks)
File(kind, hasPages, pgs, sig) ==
    [kind |-> kind, hasPages |-> hasPages, pages |-> pgs, signature |-> sig,
     fields |-> NoFields]

\* nothing has been downloaded
NoFile == File("none", FALSE, <<>>, Null)

(***************************************************************************)
(* The state as one record, and the identities in use in it.               *)
(***************************************************************************)
State ==
    [canvas |-> canvas, ctx |-> ctx, sigCanvas |-> sigCanvas, sigCtx |-> sigCtx,
     isDrawing |-> isDrawing, currentTool |-> currentTool,
     currentColor |-> currentColor, currentSize |-> currentSize,
     pages |-> pages, currentPageIndex |-> currentPageIndex,
     history |-> history, historyStep |-> historyStep,
     savedSignature |-> savedSignature,
     pending |-> pending, sigPending |-> sigPending,
     storage |-> storage, notification |-> notification,
     form |-> form, download |-> download]

Images(s) ==
    {s.canvas, s.sigCanvas, s.savedSignature, s.storage, s.download.signature}
      \cup Range(s.pages) \cup Range(s.history)
      \cup Range(s.pending) \cup Range(s.sigPending)
      \cup Range(s.download.pages)

Ids(s) == {x.id : x \in Images(s)}

\* the identity of the next new pattern of pixels: the least one not in use
FreshId(s) == CHOOSE n \in 1..(Cardinality(Ids(s)) + 1) :
                 /\ n \notin Ids(s)
                 /\ \A m \in 1..(n - 1) : m \in Ids(s)

showNotification(s, message) == [s EXCEPT !.notification = message]

(***************************************************************************)
(* History: saveState, undoLast, redoLast, loadCanvasState.                *)
(***************************************************************************)
\* saveState without "history.length = historyStep": the redo branch is kept
saveState_keepsRedoBranch(s) ==
    LET hist == Append(s.history, toDataURL(s.canvas))
        pgs  == ArraySet(s.pages, s.currentPageIndex, toDataURL(s.canvas))
    IN  IF Len(hist) > HistoryLimit
        THEN [s EXCEPT !.history = Tail(hist), !.historyStep = s.historyStep,
                       !.pages = pgs]
        ELSE [s EXCEPT !.history = hist, !.historyStep = s.historyStep + 1,
                       !.pages = pgs]

\* saveState that cuts the history one entry short of the cursor
saveState_cutsOneTooFew(s) ==
    LET step1 == s.historyStep + 1
        cut   == IF step1 < Len(s.history)
                 THEN SubSeq(s.history, 1, step1 - 1)
                 ELSE s.history
        hist  == Append(cut, toDataURL(s.canvas))
        pgs   == ArraySet(s.pages, s.currentPageIndex, toDataURL(s.canvas))
    IN  IF Len(hist) > HistoryLimit
        THEN [s EXCEPT !.history = Tail(hist), !.historyStep = step1 - 1,
                       !.pages = pgs]
        ELSE [s EXCEPT !.history = hist, !.historyStep = step1, !.pages = pgs]

\* saveState without "history.shift()": nothing is evicted
saveState_neverEvicts(s) ==
    LET step1 == s.historyStep + 1
        cut   == IF step1 < Len(s.history)
                 THEN SubSeq(s.history, 1, step1)
                 ELSE s.history
        hist  == Append(cut, toDataURL(s.canvas))
        pgs   == ArraySet(s.pages, s.currentPageIndex, toDataURL(s.canvas))
    IN  [s EXCEPT !.history = hist, !.historyStep = step1, !.pages = pgs]

\* saveState without "historyStep--" after the eviction
saveState_keepsCursorOnEviction(s) ==
    LET step1 == s.historyStep + 1
        cut   == IF step1 < Len(s.history)
                 THEN SubSeq(s.history, 1, step1)
                 ELSE s.history
        hist  == Append(cut, toDataURL(s.canvas))
        pgs   == ArraySet(s.pages, s.currentPageIndex, toDataURL(s.canvas))
    IN  IF Len(hist) > HistoryLimit
        THEN [s EXCEPT !.history = Tail(hist), !.historyStep = step1,
                       !.pages = pgs]
        ELSE [s EXCEPT !.history = hist, !.historyStep = step1, !.pages = pgs]

saveState(s) ==
    LET step1 == s.historyStep + 1
        cut   == IF step1 < Len(s.history)
                 THEN SubSeq(s.history, 1, step1)      \* history.length = step
                 ELSE s.history
        hist  == Append(cut, toDataURL(s.canvas))
        pgs   == ArraySet(s.pages, s.currentPageIndex, toDataURL(s.canvas))
    IN  IF Len(hist) > HistoryLimit
        THEN [s EXCEPT !.history = Tail(hist), !.historyStep = step1 - 1,
                       !.pages = pgs]
        ELSE [s EXCEPT !.history = hist, !.historyStep = step1, !.pages = pgs]

\* new Image(); img.onload = ...; img.src = dataURL
loadCanvasState(s, dataURL) == [s EXCEPT !.pending = Append(@, dataURL)]

\* img.onload of the k-th Image still waiting (1-based)
onload(s, k) ==
    LET dataURL == s.pending[k]
        n       == FreshId(s)
        filled  == fillRect(s.canvas, s.ctx, n)
    IN  [s EXCEPT !.canvas  = drawImage(filled, dataURL, s.ctx, n),
                  !.pages   = ArraySet(s.pages, s.currentPageIndex, dataURL),
                  !.pending = [j \in 1..(Len(s.pending) - 1) |->
                                 IF j < k THEN s.pending[j] ELSE s.pending[j + 1]]]

\* undoLast that reloads the current snapshot when there is nothing to undo
undoLast_reloadsAtZero(s) ==
    IF s.historyStep > 0
    THEN LET t == [s EXCEPT !.historyStep = @ - 1]
         IN  [loadCanvasState(t, At(t.history, t.historyStep))
                 EXCEPT !.notification = "Undone"]
    ELSE [loadCanvasState(s, At(s.history, s.historyStep))
             EXCEPT !.notification = "Nothing to undo"]

undoLast(s) ==
    IF s.historyStep > 0
    THEN LET t == [s EXCEPT !.historyStep = @ - 1]
         IN  showNotification(loadCanvasState(t, At(t.history, t.historyStep)),
                              "Undone")
    ELSE showNotification(s, "Nothing to undo")

redoLast(s) ==
    IF s.historyStep < Len(s.history) - 1
    THEN LET t == [s EXCEPT !.historyStep = @ + 1]
         IN  showNotification(loadCanvasState(t, At(t.history, t.historyStep)),
                              "Redone")
    ELSE showNotification(s, "Nothing to redo")

(***************************************************************************)
(* Drawing: startDrawing, draw, stopDrawing, setTool, clearCanvas,         *)
(* clearSignature, addText, addStamp.                                      *)
(***************************************************************************)
\* beginPath(); moveTo(x, y); setDrawingProperties(context)
startDrawing(s, isSignature) ==
    IF isSignature
    THEN [s EXCEPT !.isDrawing = TRUE,
                   !.sigCtx = [setDrawingProperties(s, @)
                                 EXCEPT !.hasPoint = TRUE]]
    ELSE [s EXCEPT !.isDrawing = TRUE,
                   !.ctx = [setDrawingProperties(s, @)
                              EXCEPT !.hasPoint = TRUE]]

\* lineTo(x, y); stroke(): on an empty path lineTo only sets the first point
\* and stroke() paints nothing
draw(s, isSignature) ==
    IF ~s.isDrawing THEN s
    ELSE IF isSignature
    THEN IF s.sigCtx.hasPoint
         THEN [s EXCEPT !.sigCanvas = paint(@, s.sigCtx, FreshId(s))]
         ELSE [s EXCEPT !.sigCtx.hasPoint = TRUE]
    ELSE IF s.ctx.hasPoint
         THEN [s EXCEPT !.canvas = paint(@, s.ctx, FreshId(s))]
         ELSE [s EXCEPT !.ctx.hasPoint = TRUE]

\* stopDrawing that saves the state for the signature canvas too
stopDrawing_savesSignatureStroke(s, isSignature) ==
    IF s.isDrawing
    THEN saveState([s EXCEPT !.isDrawing = FALSE])
    ELSE s

stopDrawing(s, isSignature) ==
    IF s.isDrawing
    THEN LET t == [s EXCEPT !.isDrawing = FALSE]
         IN  IF ~isSignature THEN saveState(t) ELSE t
    ELSE s

setTool(s, tool) ==
    LET a == [s EXCEPT !.currentTool = tool]
    IN  showNotification([a EXCEPT !.ctx = setDrawingProperties(a, @)],
                         "tool selected")

setColor(s, color) == [s EXCEPT !.currentColor = color]

\* parseInt(size) of the slider's value
setSize(s, size) == [s EXCEPT !.currentSize = size]

clearCanvas(s) ==
    showNotification(
        saveState([s EXCEPT !.canvas = fillRect(@, s.ctx, FreshId(s))]),
        "Canvas cleared")

clearSignature(s) ==
    showNotification(
        [s EXCEPT !.sigCanvas = fillRect(@, s.sigCtx, FreshId(s))],
        "Signature cleared")

\* prompt() returned text (an empty or cancelled prompt changes nothing)
addText(s, text) ==
    IF text
    THEN showNotification(
             saveState([s EXCEPT !.canvas = paint(@, s.ctx, FreshId(s))]),
             "Text added")
    ELSE s

\* beginPath(); arc(...); strokeStyle = currentColor; lineWidth = 3;
\* stroke(); fillText(...)
addStamp(s) ==
    showNotification(
        saveState([s EXCEPT !.canvas = paint(@, s.ctx, FreshId(s)),
                            !.ctx.hasPoint = TRUE,
                            !.ctx.strokeStyle = s.currentColor,
                            !.ctx.lineWidth = 6]),
        "Stamp added")

(***************************************************************************)
(* Pages: addPage, deletePage, previousPage, nextPage, loadPage.           *)
(***************************************************************************)
loadPage(s, pageIndex) ==
    IF pageIndex < Len(s.pages) /\ At(s.pages, pageIndex) # EmptyString
    THEN loadCanvasState(s, At(s.pages, pageIndex))
    ELSE LET t == [s EXCEPT !.canvas = fillRect(@, s.ctx, FreshId(s))]
         IN  [t EXCEPT !.pages = ArraySet(@, pageIndex, toDataURL(t.canvas))]

addPage(s) ==
    LET a == [s EXCEPT !.pages = Append(@, EmptyString)]
        b == [a EXCEPT !.currentPageIndex = Len(a.pages) - 1]
        c == [b EXCEPT !.canvas = fillRect(@, b.ctx, FreshId(b))]
    IN  showNotification(saveState(c), "Page added")

\* deletePage that blanks the only page instead of refusing
deletePage_blanksLastPage(s) ==
    IF Len(s.pages) > 1
    THEN LET a == [s EXCEPT !.pages = Splice1(@, s.currentPageIndex)]
             b == IF a.currentPageIndex >= Len(a.pages)
                  THEN [a EXCEPT !.currentPageIndex = Len(a.pages) - 1]
                  ELSE a
         IN  showNotification(loadPage(b, b.currentPageIndex), "Page deleted")
    ELSE showNotification(
             [s EXCEPT !.canvas = White,
                       !.pages = ArraySet(@, s.currentPageIndex, EmptyString)],
             "Cannot delete the last page")

deletePage(s) ==
    IF Len(s.pages) > 1
    THEN LET a == [s EXCEPT !.pages = Splice1(@, s.currentPageIndex)]
             b == IF a.currentPageIndex >= Len(a.pages)
                  THEN [a EXCEPT !.currentPageIndex = Len(a.pages) - 1]
                  ELSE a
         IN  showNotification(loadPage(b, b.currentPageIndex), "Page deleted")
    ELSE showNotification(s, "Cannot delete the last page")

\* previousPage that flushes the canvas into the slot before it refuses
previousPage_flushesAtBoundary(s) ==
    IF s.currentPageIndex > 0
    THEN LET a == [s EXCEPT !.pages = ArraySet(@, s.currentPageIndex,
                                                toDataURL(s.canvas))]
             b == [a EXCEPT !.currentPageIndex = @ - 1]
         IN  loadPage(b, b.currentPageIndex)
    ELSE showNotification(
             [s EXCEPT !.pages = ArraySet(@, s.currentPageIndex,
                                          toDataURL(s.canvas))],
             "Already on first page")

previousPage(s) ==
    IF s.currentPageIndex > 0
    THEN LET a == [s EXCEPT !.pages = ArraySet(@, s.currentPageIndex,
                                                toDataURL(s.canvas))]
             b == [a EXCEPT !.currentPageIndex = @ - 1]
         IN  loadPage(b, b.currentPageIndex)
    ELSE showNotification(s, "Already on first page")

nextPage(s) ==
    IF s.currentPageIndex < Len(s.pages) - 1
    THEN LET a == [s EXCEPT !.pages = ArraySet(@, s.currentPageIndex,
                                                toDataURL(s.canvas))]
             b == [a EXCEPT !.currentPageIndex = @ + 1]
         IN  loadPage(b, b.currentPageIndex)
    ELSE showNotification(s, "Already on last page")

(***************************************************************************)
(* Signature persistence and document import.                              *)
(***************************************************************************)
\* localStorage.setItem throws when the quota is exceeded or storage is denied
saveSignature(s, stored) ==
    LET a == [s EXCEPT !.savedSignature = toDataURL(s.sigCanvas)]
    IN  IF stored
        THEN showNotification([a EXCEPT !.storage = a.savedSignature],
                              "Signature saved")
        ELSE showNotification(a, "Error saving signature")

loadSavedSignature(s) ==
    IF s.storage # Null
    THEN [s EXCEPT !.sigPending = Append(@, s.storage),
                   !.savedSignature = s.storage]
    ELSE s

\* img.onload of the k-th signature Image still waiting
sigOnload(s, k) ==
    LET n      == FreshId(s)
        filled == fillRect(s.sigCanvas, s.sigCtx, n)
    IN  [s EXCEPT !.sigCanvas  = drawImage(filled, s.sigPending[k], s.sigCtx, n),
                  !.sigPending = [j \in 1..(Len(s.sigPending) - 1) |->
                                    IF j < k THEN s.sigPending[j]
                                    ELSE s.sigPending[j + 1]]]

\* element.value || defaultValue
getFormValue(s, elementId, defaultValue) ==
    IF s.form[elementId] # "" THEN s.form[elementId] ELSE defaultValue

\* new Date(), formatted as the date and as the time field hold it
Today   == "today"
TimeNow == "now"

\* savePrescription: the file is downloaded (JSON.stringify keeps the page
\* strings, the signature and the field strings as they are), then the
\* signature is stored; localStorage.setItem throws when the quota is
\* exceeded or storage is denied
savePrescription(s, stored) ==
    LET data == [File("object", TRUE, s.pages, toDataURL(s.sigCanvas))
                   EXCEPT !.fields =
                     [id \in FieldIds |->
                        getFormValue(s, id,
                          CASE id = "doctor-name"       -> "Dr. Smith"
                            [] id = "clinic-name"       -> "Medical Center"
                            [] id = "patient-name"      -> "John Doe"
                            [] id = "patient-age"       -> "35"
                            [] id = "prescription-date" -> Today
                            [] id = "prescription-time" -> TimeNow)]]
        a    == [s EXCEPT !.download = data]
    IN  IF stored
        THEN showNotification([a EXCEPT !.storage = toDataURL(s.sigCanvas)],
                              "Prescription saved successfully!")
        ELSE showNotification(a, "Error saving prescription")

\* if (element && value) element.value = value
setFormValue(s, elementId, value) ==
    IF value # "" THEN [s EXCEPT !.form[elementId] = value] ELSE s

\* reader.onload of loadPrescription
loadPrescription(s, file) ==
    IF file.kind # "object"
    THEN showNotification(s, "Error loading prescription file")
    ELSE LET a == [s EXCEPT !.pages = IF file.hasPages THEN file.pages ELSE <<>>,
                            !.currentPageIndex = 0]
             b == IF Len(a.pages) > 0 THEN loadPage(a, 0) ELSE a
             f == [b EXCEPT !.form =
                     [id \in FieldIds |->
                        setFormValue(b, id, file.fields[id]).form[id]]]
             c == IF file.signature # Null
                  THEN [f EXCEPT !.sigPending = Append(@, file.signature)]
                  ELSE f
         IN  showNotification(c, "Prescription loaded successfully!")

(***************************************************************************)
(* Construction: the constructor's field initialisers, initializeCanvas    *)
(* and loadSavedSignature.                                                 *)
(***************************************************************************)
constructor(stored) ==
    [canvas |-> Transparent, ctx |-> DefaultCtx,
     sigCanvas |-> Transparent, sigCtx |-> DefaultCtx,
     isDrawing |-> FALSE, currentTool |-> "pen",
     currentColor |-> "#000000", currentSize |-> 2,
     pages |-> <<>>, currentPageIndex |-> 0,
     history |-> <<>>, historyStep |-> -1,
     savedSignature |-> Null,
     pending |-> <<>>, sigPending |-> <<>>,
     storage |-> stored, notification |-> "",
     form |-> NoFields, download |-> NoFile]

\* the date and the time field are set, the first page is pushed and the
\* state saved before the white fill
initializeCanvas(s) ==
    LET d == [s EXCEPT !.form["prescription-date"] = Today,
                       !.form["prescription-time"] = TimeNow]
        a == saveState([d EXCEPT !.pages = Append(@, EmptyString)])
    IN  [a EXCEPT !.canvas    = fillRect(@, a.ctx, FreshId(a)),
                  !.sigCanvas = fillRect(@, a.sigCtx, FreshId(a))]

InitState(stored) == loadSavedSignature(initializeCanvas(constructor(stored)))

(***************************************************************************)
(* Actions: one per event handler.  Commit makes the record the state.     *)
(***************************************************************************)
Commit(t) ==
    /\ canvas' = t.canvas
    /\ ctx' = t.ctx
    /\ sigCanvas' = t.sigCanvas
    /\ sigCtx' = t.sigCtx
    /\ isDrawing' = t.isDrawing
    /\ currentTool' = t.currentTool
    /\ currentColor' = t.currentColor
    /\ currentSize' = t.currentSize
    /\ pages' = t.pages
    /\ currentPageIndex' = t.currentPageIndex
    /\ history' = t.history
    /\ historyStep' = t.historyStep
    /\ savedSignature' = t.savedSignature
    /\ pending' = t.pending
    /\ sigPending' = t.sigPending
    /\ storage' = t.storage
    /\ notification' = t.notification
    /\ form' = t.form
    /\ download' = t.download

\* the bounds of the explorations that do not go to the history limit
Bounded(t) ==
    /\ \A x \in Images(t) : x.id <= MaxId
    /\ Len(t.history) <= MaxWideHistory
    /\ Len(t.pages) <= MaxPages
    /\ Len(t.pending) <= MaxPending
    /\ Len(t.sigPending) <= MaxPending

Wide(t) == Bounded(t) /\ Commit(t) /\ UNCHANGED script

\* the files offered to loadPrescription
ImportFiles ==
    {File("malformed", FALSE, <<>>, Null), File("null", FALSE, <<>>, Null),
     File("object", FALSE, <<>>, Null),
     File("object", TRUE, <<>>, Null),
     File("object", TRUE, <<White>>, White),
     File("object", TRUE, <<White, EmptyString>>, Null)}

StartDrawing(sig) == Wide(startDrawing(State, sig))
Draw(sig)         == Wide(draw(State, sig))
StopDrawing(sig)  == Wide(stopDrawing(State, sig))
SetTool(tool)     == Wide(setTool(State, tool))
ClearCanvas       == Wide(clearCanvas(State))
ClearSignature    == Wide(clearSignature(State))
AddText           == \E text \in BOOLEAN : Wide(addText(State, text))
AddStamp          == Wide(addStamp(State))
UndoLast          == Wide(undoLast(State))
RedoLast          == Wide(redoLast(State))
Onload            == \E k \in 1..Len(pending) : Wide(onload(State, k))
AddPage           == Wide(addPage(State))
DeletePage        == Wide(deletePage(State))
PreviousPage      == Wide(previousPage(State))
NextPage          == Wide(nextPage(State))
SaveSignature     == \E stored \in BOOLEAN :
                        Wide(saveSignature(State, stored))
SigOnload         == \E k \in 1..Len(sigPending) :
                        Wide(sigOnload(State, k))
LoadPrescription  == \E file \in ImportFiles :
                        Wide(loadPrescription(State, file))

Idle == [phase |-> "idle", n |-> 0, k |-> 0, shown |-> <<>>]

\* new PrescriptionCanvas() with no signature in localStorage
Init ==
    LET t == InitState(Null)
    IN  /\ canvas = t.canvas
        /\ ctx = t.ctx
        /\ sigCanvas = t.sigCanvas
        /\ sigCtx = t.sigCtx
        /\ isDrawing = t.isDrawing
        /\ currentTool = t.currentTool
        /\ currentColor = t.currentColor
        /\ currentSize = t.currentSize
        /\ pages = t.pages
        /\ currentPageIndex = t.currentPageIndex
        /\ history = t.history
        /\ historyStep = t.historyStep
        /\ savedSignature = t.savedSignature
        /\ pending = t.pending
        /\ sigPending = t.sigPending
        /\ storage = t.storage
        /\ notification = t.notification
        /\ form = t.form
        /\ download = t.download
        /\ script = Idle

\* every handler, within the bounds
Next ==
    \/ \E sig \in BOOLEAN : StartDrawing(sig)
    \/ \E sig \in BOOLEAN : Draw(sig)
    \/ \E sig \in BOOLEAN : StopDrawing(sig)
    \/ \E tool \in Tools : SetTool(tool)
    \/ ClearCanvas
    \/ ClearSignature
    \/ AddText
    \/ AddStamp
    \/ UndoLast
    \/ RedoLast
    \/ Onload
    \/ AddPage
    \/ DeletePage
    \/ PreviousPage
    \/ NextPage
    \/ SaveSignature
    \/ SigOnload
    \/ LoadPrescription

Spec == Init /\ [][Next]_vars

(***************************************************************************)
(* The history operations on a one-page document with the pen (the tool    *)
(* selected at construction): strokes on the main canvas, clearCanvas,     *)
(* undo, redo and the loads they ask for.                                  *)
(***************************************************************************)
NextHistory ==
    \/ StartDrawing(FALSE)
    \/ Draw(FALSE)
    \/ StopDrawing(FALSE)
    \/ ClearCanvas
    \/ UndoLast
    \/ RedoLast
    \/ Onload

SpecHistory == Init /\ [][NextHistory]_vars

(***************************************************************************)
(* The same with every tool.                                               *)
(***************************************************************************)
NextTools ==
    \/ StartDrawing(FALSE)
    \/ Draw(FALSE)
    \/ StopDrawing(FALSE)
    \/ \E tool \in Tools : SetTool(tool)
    \/ ClearCanvas
    \/ UndoLast
    \/ RedoLast
    \/ Onload

SpecTools == Init /\ [][NextTools]_vars

(***************************************************************************)
(* The page operations: pen strokes on the main canvas, the four page      *)
(* operations, import, undo, redo and the loads they ask for.              *)
(***************************************************************************)
NextPages ==
    \/ StartDrawing(FALSE)
    \/ Draw(FALSE)
    \/ StopDrawing(FALSE)
    \/ UndoLast
    \/ RedoLast
    \/ Onload
    \/ AddPage
    \/ DeletePage
    \/ PreviousPage
    \/ NextPage
    \/ LoadPrescription
    \/ SigOnload

SpecPages == Init /\ [][NextPages]_vars
(***************************************************************************)
(* C2.  After any sequence of pushes, undos and redos, with no load        *)
(* waiting and no stroke under way, the snapshot at the cursor,            *)
(* history[historyStep], is the content of the main canvas; also right     *)
(* after construction.                                                     *)
(***************************************************************************)
C2_CursorSnapshotIsCanvas ==
    (pending = <<>> /\ ~isDrawing)
        => At(history, historyStep) = toDataURL(canvas)

(***************************************************************************)
(* C9.  A stroke completed while the cursor is not at the end of the       *)
(* history discards every entry after the cursor and appends the new       *)
(* snapshot: the history becomes the entries up to the cursor followed by  *)
(* the new snapshot, the cursor is at the last entry, and redoLast then    *)
(* reports 'Nothing to redo' and asks for no load.                         *)
(***************************************************************************)
C9_PushDiscardsRedo ==
    [][ (isDrawing /\ ~isDrawing' /\ historyStep < Len(history) - 1)
          => /\ history' = Append(SubSeq(history, 1, historyStep + 1),
                                  toDataURL(canvas))
             /\ historyStep' = Len(history') - 1
             /\ redoLast(State').notification = "Nothing to redo"
             /\ redoLast(State').pending = pending'
             /\ redoLast(State').historyStep = historyStep' ]_vars

\* a stroke was completed after an undo: the last notification is the
\* undo's, and the cursor is at the end again
C9_Witness ==
    /\ notification = "Undone"
    /\ ~isDrawing
    /\ historyStep = Len(history) - 1
    /\ historyStep >= 1
    /\ At(history, historyStep).id > 0

(***************************************************************************)
(* C10.  undoLast with the cursor at 0, and redoLast with the cursor at    *)
(* the last index, only show their notification: the cursor, the history,  *)
(* the pages, the active page index and the main canvas stay as they are   *)
(* and no load is asked for.                                               *)
(***************************************************************************)
C10_FailedUndoRedoChangeNothing ==
    /\ historyStep = 0 =>
          undoLast(State) = [State EXCEPT !.notification = "Nothing to undo"]
    /\ historyStep = Len(history) - 1 =>
          redoLast(State) = [State EXCEPT !.notification = "Nothing to redo"]

\* undoLast has been refused at cursor 0 of a history that holds undone
\* entries, and redoLast would be refused at the end of this history
C10_Witness ==
    /\ notification = "Nothing to undo"
    /\ historyStep = 0
    /\ Len(history) >= 2
    /\ pending = <<>>
(***************************************************************************)
(* To the history limit: a prefix of pen strokes of one segment each       *)
(* (mousedown, mousemove, mouseup on the main canvas, nothing in between), *)
(* up to one more than the limit holds, followed by at most MaxFree        *)
(* operations of any kind on the history or the pages, and the loads they  *)
(* ask for.  script.n counts the strokes of the prefix, script.k the       *)
(* operations after it.                                                    *)
(***************************************************************************)
stroke(s) == stopDrawing(draw(startDrawing(s, FALSE), FALSE), FALSE)

Free(t) ==
    /\ script.k < MaxFree
    /\ Commit(t)
    /\ script' = [script EXCEPT !.phase = "free", !.k = @ + 1]

DeepPrefixStroke ==
    /\ script.phase \in {"idle", "prefix"}
    /\ script.n <= HistoryLimit
    /\ Commit(stroke(State))
    /\ script' = [script EXCEPT !.phase = "prefix", !.n = @ + 1]

DeepStroke       == Free(stroke(State))
DeepClearCanvas  == Free(clearCanvas(State))
DeepAddStamp     == Free(addStamp(State))
DeepUndoLast     == Free(undoLast(State))
DeepRedoLast     == Free(redoLast(State))
DeepAddPage      == Free(addPage(State))
DeepDeletePage   == Free(deletePage(State))
DeepPreviousPage == Free(previousPage(State))
DeepNextPage     == Free(nextPage(State))
DeepOnload       == \E k \in 1..Len(pending) :
                       Commit(onload(State, k)) /\ UNCHANGED script

NextDeep ==
    \/ DeepPrefixStroke
    \/ DeepStroke
    \/ DeepClearCanvas
    \/ DeepAddStamp
    \/ DeepUndoLast
    \/ DeepRedoLast
    \/ DeepAddPage
    \/ DeepDeletePage
    \/ DeepPreviousPage
    \/ DeepNextPage
    \/ DeepOnload

SpecDeep == Init /\ [][NextDeep]_vars

(***************************************************************************)
(* C6.  In every state the cursor is an index of the history:              *)
(* 0 <= historyStep <= history.length - 1.                                 *)
(***************************************************************************)
C6_CursorInRange ==
    /\ Len(history) >= 1
    /\ 0 <= historyStep
    /\ historyStep <= Len(history) - 1

\* a push that evicted (more strokes than the limit holds), then an undo and
\* a push that cut the redo branch
C6_Witness ==
    /\ script.n > HistoryLimit
    /\ script.k = 2
    /\ notification = "Undone"
    /\ historyStep = Len(history) - 1
    /\ Len(history) = HistoryLimit

(***************************************************************************)
(* C7.  The history never holds more than 50 entries.                      *)
(***************************************************************************)
C7_HistoryAtMostLimit == Len(history) <= HistoryLimit

\* the 51st and the 52nd snapshot have been pushed
C7_Witness ==
    /\ script.n = HistoryLimit + 1
    /\ Len(history) = HistoryLimit

(***************************************************************************)
(* C8.  A push onto a full history (50 entries, cursor at the last) evicts *)
(* exactly the oldest entry: the history becomes the 49 newer entries      *)
(* followed by the new snapshot, the cursor stays 49 and designates the    *)
(* snapshot just pushed; undoLast right after it succeeds, moves the       *)
(* cursor to 48 and asks for the load of the snapshot that was last before *)
(* the push.                                                               *)
(***************************************************************************)
C8_EvictionKeepsCursorOnPushed ==
    [][ (Len(history) = HistoryLimit /\ historyStep = HistoryLimit - 1
           /\ history' # history)
          => /\ history' = Append(Tail(history), toDataURL(canvas'))
             /\ historyStep' = HistoryLimit - 1
             /\ At(history', historyStep') = toDataURL(canvas')
             /\ undoLast(State').notification = "Undone"
             /\ undoLast(State').historyStep = HistoryLimit - 2
             /\ undoLast(State').pending =
                    Append(pending', At(history, HistoryLimit - 1)) ]_vars

\* the undo right after an evicting push has been done and its load has
\* completed
C8_Witness ==
    /\ script.n = HistoryLimit
    /\ script.k = 1
    /\ notification = "Undone"
    /\ historyStep = HistoryLimit - 2
    /\ Len(history) = HistoryLimit
    /\ pending = <<>>
    /\ canvas = At(history, historyStep)
(***************************************************************************)
(* C3.  The page collection is never empty and the active page index is    *)
(* one of its indices, under strokes, undo, redo, the page operations and  *)
(* the import of any file.                                                 *)
(***************************************************************************)
C3_PagesNonEmptyIndexValid ==
    /\ Len(pages) >= 1
    /\ 0 <= currentPageIndex
    /\ currentPageIndex <= Len(pages) - 1

(***************************************************************************)
(* C5.  While an Image asked for by loadCanvasState waits for its onload,  *)
(* the only step that touches the main canvas, its context, the stroke     *)
(* flag, the pages, the active page index, the history or the cursor is    *)
(* the completion of a waiting load.                                       *)
(***************************************************************************)
mainSide == <<canvas, ctx, isDrawing, pages, currentPageIndex, history,
              historyStep, pending>>

C5_NothingRunsWhileLoading ==
    [][ pending # <<>>
          => \/ UNCHANGED mainSide
             \/ \E k \in 1..Len(pending) : State' = onload(State, k) ]_vars

(***************************************************************************)
(* The run of C1: on the fresh document an optional tool selection, then   *)
(* N strokes of one segment each (script.n), then N times undoLast, each   *)
(* followed by the completion of its load (script.k counts them), then N   *)
(* times redoLast, each followed by the completion of its load (script.k   *)
(* counts down).                                                           *)
(***************************************************************************)
RunSetTool ==
    /\ script.phase = "idle"
    /\ \E tool \in Tools : Commit(setTool(State, tool))
    /\ script' = [script EXCEPT !.phase = "draw"]

RunStroke ==
    /\ script.phase \in {"idle", "draw"}
    /\ script.n < HistoryLimit
    /\ Commit(stroke(State))
    /\ script' = [script EXCEPT !.phase = "draw", !.n = @ + 1]

RunUndo ==
    /\ script.phase \in {"draw", "undo"}
    /\ script.n >= 1
    /\ script.k < script.n
    /\ pending = <<>>
    /\ Commit(undoLast(State))
    /\ script' = [script EXCEPT !.phase = "undo", !.k = @ + 1]

RunRedo ==
    /\ script.phase \in {"undo", "redo"}
    /\ script.phase = "undo" => script.k = script.n
    /\ script.k > 0
    /\ pending = <<>>
    /\ Commit(redoLast(State))
    /\ script' = [script EXCEPT !.phase = "redo", !.k = @ - 1]

RunOnload ==
    /\ pending # <<>>
    /\ Commit(onload(State, 1))
    /\ UNCHANGED script

NextUndoRedo == RunSetTool \/ RunStroke \/ RunUndo \/ RunRedo \/ RunOnload

SpecUndoRedo == Init /\ [][NextUndoRedo]_vars

(***************************************************************************)
(* C1.  After N strokes (1 <= N <= 50) on the fresh one-page document, N   *)
(* undos never report 'Nothing to undo' and leave the main canvas blank    *)
(* (white), and N redos then leave it holding the content it had after the *)
(* N-th stroke (the last snapshot pushed).                                 *)
(***************************************************************************)
C1_UndoAllThenRedoAll ==
    /\ script.phase = "undo" => notification # "Nothing to undo"
    /\ (script.phase = "undo" /\ script.k = script.n /\ pending = <<>>)
          => canvas = White
    /\ (script.phase = "redo" /\ script.k = 0 /\ pending = <<>>)
          => toDataURL(canvas) = At(history, Len(history) - 1)
(***************************************************************************)
(* The run of C4: on the fresh document an optional tool selection and     *)
(* strokes on page 1, then addPage, then strokes on the active page and    *)
(* previousPage / nextPage in any order, each navigation waiting for the   *)
(* load of the one before it.  script.shown[i] is what page i showed when  *)
(* it was last drawn on while active; script.n counts strokes and script.k *)
(* navigations that took place.                                            *)
(***************************************************************************)
NavSetTool ==
    /\ script.phase = "idle"
    /\ \E tool \in Tools : Commit(setTool(State, tool))
    /\ script' = [script EXCEPT !.phase = "page1"]

NavStrokePage1 ==
    /\ script.phase \in {"idle", "page1"}
    /\ script.n < MaxFree
    /\ Commit(stroke(State))
    /\ script' = [script EXCEPT !.phase = "page1", !.n = @ + 1]

NavAddPage ==
    /\ script.phase \in {"idle", "page1"}
    /\ LET t == addPage(State)
       IN  /\ Commit(t)
           /\ script' = [script EXCEPT !.phase = "nav",
                                       !.shown = <<canvas, t.canvas>>]

NavStroke ==
    /\ script.phase = "nav"
    /\ script.n < MaxFree
    /\ pending = <<>>
    /\ LET t == stroke(State)
       IN  /\ Commit(t)
           /\ script' = [script EXCEPT
                            !.n = @ + 1,
                            !.shown = ArraySet(@, currentPageIndex, t.canvas)]

NavPreviousPage ==
    /\ script.phase = "nav"
    /\ script.k < MaxFree
    /\ pending = <<>>
    /\ Commit(previousPage(State))
    /\ script' = [script EXCEPT
                     !.k = IF currentPageIndex > 0 THEN @ + 1 ELSE @]

NavNextPage ==
    /\ script.phase = "nav"
    /\ script.k < MaxFree
    /\ pending = <<>>
    /\ Commit(nextPage(State))
    /\ script' = [script EXCEPT
                     !.k = IF currentPageIndex < Len(pages) - 1
                           THEN @ + 1 ELSE @]

NavOnload ==
    /\ pending # <<>>
    /\ Commit(onload(State, 1))
    /\ UNCHANGED script

NextNav ==
    \/ NavSetTool
    \/ NavStrokePage1
    \/ NavAddPage
    \/ NavStroke
    \/ NavPreviousPage
    \/ NavNextPage
    \/ NavOnload

SpecNav == Init /\ [][NextNav]_vars

(***************************************************************************)
(* C4.  Page content survives navigation: after addPage, strokes and       *)
(* previousPage / nextPage, with every load completed, the main canvas     *)
(* shows what the active page showed when it was last active, the stored   *)
(* slot of every other page equals what that page showed when it was last  *)
(* active, and from the second navigation on (previousPage then nextPage)  *)
(* so does the stored slot of the active page.                             *)
(***************************************************************************)
C4_PageContentSurvivesNavigation ==
    (script.phase = "nav" /\ script.k >= 1 /\ pending = <<>>)
        => /\ canvas = At(script.shown, currentPageIndex)
           /\ \A i \in 0..(Len(pages) - 1) :
                  (i # currentPageIndex \/ script.k >= 2)
                      => At(pages, i) = At(script.shown, i)
(***************************************************************************)
(* C11.  In the run of strokes, undos and redos on the fresh document (no  *)
(* eviction: the history holds the initial snapshot and one per stroke), a *)
(* successful undoLast moves the cursor back by exactly one and a          *)
(* successful redoLast moves it forward by exactly one, neither changes    *)
(* the history entries, and once the load has completed the main canvas    *)
(* shows the state after the edit the cursor designates: the blank white   *)
(* page at cursor 0, the snapshot of that stroke otherwise.  So after      *)
(* strokes A and B, undo shows the state after A, a second undo the blank  *)
(* page, and redo the state after A again.                                 *)
(***************************************************************************)
C11_UndoRedoStepByOne ==
    [][ (script'.phase \in {"undo", "redo"} /\ Len(history) = script.n + 1)
          => /\ history' = history
             /\ (script'.phase = "undo" /\ script'.k = script.k + 1
                   /\ historyStep > 0)
                   => historyStep' = historyStep - 1
             /\ (script'.phase = "redo" /\ script'.k = script.k - 1
                   /\ historyStep < Len(history) - 1)
                   => historyStep' = historyStep + 1
             /\ pending' = <<>>
                   => canvas' = IF historyStep' = 0 THEN White
                                ELSE At(history', historyStep') ]_vars
(***************************************************************************)
(* C12.  deletePage with exactly one page only shows 'Cannot delete the    *)
(* last page': the page count, the page's stored snapshot, the active page *)
(* index, the main canvas, the history and the cursor stay as they are and *)
(* no load is asked for.                                                   *)
(***************************************************************************)
C12_DeleteLastPageRefused ==
    Len(pages) = 1 =>
        deletePage(State) =
            [State EXCEPT !.notification = "Cannot delete the last page"]

\* deletePage has been refused on a one-page document that holds strokes
C12_Witness ==
    /\ notification = "Cannot delete the last page"
    /\ Len(pages) = 1
    /\ currentPageIndex = 0
    /\ At(pages, 0).id > 0
    /\ Len(history) >= 2
(***************************************************************************)
(* The run of C13: at most MaxFree edits (the user types into a form       *)
(* field, selects a tool, signs, draws on the page, adds a page), then     *)
(* savePrescription, then loadPrescription of the file downloaded, then    *)
(* the loads it asked for.  script.n counts the edits; script.shown holds  *)
(* the pages, the signature canvas and the form as they were when          *)
(* savePrescription was called.                                            *)
(***************************************************************************)
\* the fields the user edits in the exploration, and what is typed
EditedFields == {"doctor-name", "prescription-date"}
TypedValues  == {"", "typed"}

sigStroke(s) == stopDrawing(draw(startDrawing(s, TRUE), TRUE), TRUE)

Edit(t) ==
    /\ script.phase \in {"idle", "edit"}
    /\ script.n < MaxFree
    /\ Commit(t)
    /\ script' = [script EXCEPT !.phase = "edit", !.n = @ + 1]

\* the user types into a form field
ExportSetField  == \E id \in EditedFields, v \in TypedValues :
                       Edit([State EXCEPT !.form[id] = v])
ExportSetTool   == \E tool \in Tools : Edit(setTool(State, tool))
ExportSign      == Edit(sigStroke(State))
ExportStroke    == Edit(stroke(State))
ExportAddPage   == Edit(addPage(State))

ExportSave ==
    /\ script.phase \in {"idle", "edit"}
    /\ \E stored \in BOOLEAN : Commit(savePrescription(State, stored))
    /\ script' = [script EXCEPT
                     !.phase = "saved",
                     !.shown = <<[pages |-> pages, sigCanvas |-> sigCanvas,
                                  form |-> form]>>]

\* the file input's change handler, given the file downloaded
ExportLoad ==
    /\ script.phase = "saved"
    /\ Commit(loadPrescription(State, download))
    /\ script' = [script EXCEPT !.phase = "loaded"]

ExportOnload ==
    /\ pending # <<>>
    /\ Commit(onload(State, 1))
    /\ UNCHANGED script

ExportSigOnload ==
    /\ sigPending # <<>>
    /\ Commit(sigOnload(State, 1))
    /\ UNCHANGED script

NextExport ==
    \/ ExportSetField
    \/ ExportSetTool
    \/ ExportSign
    \/ ExportStroke
    \/ ExportAddPage
    \/ ExportSave
    \/ ExportLoad
    \/ ExportOnload
    \/ ExportSigOnload

SpecExport == Init /\ [][NextExport]_vars

(***************************************************************************)
(* C13.  Export then import: after savePrescription, loadPrescription of   *)
(* the file produced and the completion of the loads it asked for, the     *)
(* pages are the same in the same order, the signature canvas holds the    *)
(* same content and each of the six form fields holds the same value as    *)
(* when savePrescription was called, empty fields included.                *)
(***************************************************************************)
C13_ExportImportRoundTrip ==
    (script.phase = "loaded" /\ pending = <<>> /\ sigPending = <<>>) =>
        /\ pages = At(script.shown, 0).pages
        /\ sigCanvas = At(script.shown, 0).sigCanvas
        /\ form = At(script.shown, 0).form
(***************************************************************************)
(* C14.  addPage (the step that makes the page list one longer) stores the *)
(* content the main canvas shows at the call into the slot of the page     *)
(* that was active, appends one blank (white) page, makes it the active    *)
(* page and leaves the main canvas blank; the other pages keep their       *)
(* content and order.                                                      *)
(***************************************************************************)
C14_AddPageFlushesAndAppends ==
    [][ Len(pages') = Len(pages) + 1
          => /\ pages' = Append(ArraySet(pages, currentPageIndex,
                                         toDataURL(canvas)),
                                White)
             /\ currentPageIndex' = Len(pages)
             /\ canvas' = White ]_vars
(***************************************************************************)
(* C15.  A page operation that takes place (addPage, deletePage,           *)
(* previousPage, nextPage: the steps that change the page count or the     *)
(* active page index) resets nothing in the history: every entry that was  *)
(* in the history is still there, unaltered and at its place, and the      *)
(* cursor designates the same entry or a newly appended one.               *)
(***************************************************************************)
C15_PageOperationsKeepHistory ==
    [][ (currentPageIndex' # currentPageIndex \/ Len(pages') # Len(pages))
          => /\ Len(history') >= Len(history)
             /\ SubSeq(history', 1, Len(history)) = history
             /\ \/ historyStep' = historyStep
                \/ /\ Len(history') = Len(history) + 1
                   /\ historyStep' = Len(history') - 1 ]_vars
(***************************************************************************)
(* The run of C16: on the fresh document an optional tool selection, then  *)
(* strokes (script.n counts them) and page operations (script.k counts     *)
(* them: addPage, previousPage, nextPage, deletePage), each page operation *)
(* waiting for the loads asked for before it.  script.phase is "deleted"   *)
(* from a deletePage that removed a page to the next stroke or page        *)
(* operation.                                                              *)
(***************************************************************************)
DelSetTool ==
    /\ script.phase = "idle"
    /\ \E tool \in Tools : Commit(setTool(State, tool))
    /\ script' = [script EXCEPT !.phase = "pages"]

DelStroke ==
    /\ script.n < MaxFree
    /\ pending = <<>>
    /\ Commit(stroke(State))
    /\ script' = [script EXCEPT !.phase = "pages", !.n = @ + 1]

PageOp(t) ==
    /\ script.k < MaxFree
    /\ pending = <<>>
    /\ Commit(t)
    /\ script' = [script EXCEPT !.phase = "pages", !.k = @ + 1]

DelAddPage      == PageOp(addPage(State))
DelPreviousPage == PageOp(previousPage(State))
DelNextPage     == PageOp(nextPage(State))

DelDeletePage ==
    /\ script.k < MaxFree
    /\ pending = <<>>
    /\ Commit(deletePage(State))
    /\ script' = [script EXCEPT
                     !.phase = IF Len(pages) > 1 THEN "deleted" ELSE "pages",
                     !.k = @ + 1]

DelOnload ==
    /\ pending # <<>>
    /\ Commit(onload(State, 1))
    /\ UNCHANGED script

NextDelete ==
    \/ DelSetTool
    \/ DelStroke
    \/ DelAddPage
    \/ DelPreviousPage
    \/ DelNextPage
    \/ DelDeletePage
    \/ DelOnload

SpecDelete == Init /\ [][NextDelete]_vars

(***************************************************************************)
(* C16.  deletePage with more than one page removes exactly the entry of   *)
(* the active page and keeps the other pages' content and order; the       *)
(* active index stays, unless it was the last index, and then it becomes   *)
(* the new last index; and the snapshot of the page now at the active      *)
(* index is loaded into the main canvas: once the load has completed the   *)
(* canvas shows that snapshot (on the white page).                         *)
(***************************************************************************)
C16_DeletePageRemovesActiveAndLoads ==
    [][ /\ (script'.phase = "deleted" /\ script'.k = script.k + 1)
             => /\ pages' = Splice1(pages, currentPageIndex)
                /\ currentPageIndex' =
                       IF currentPageIndex = Len(pages) - 1
                       THEN Len(pages) - 2 ELSE currentPageIndex
        /\ (script'.phase = "deleted" /\ pending' = <<>>)
             => canvas' = Flatten(At(pages', currentPageIndex')) ]_vars
(***************************************************************************)
(* C17.  previousPage at index 0 and nextPage at the last index only show  *)
(* their notification: the active page index, every page slot, the main    *)
(* canvas, the history and the cursor stay as they are; nothing is flushed *)
(* into a slot and no load is asked for.                                   *)
(***************************************************************************)
C17_BoundaryNavigationRefused ==
    /\ currentPageIndex = 0 =>
          previousPage(State) =
              [State EXCEPT !.notification = "Already on first page"]
    /\ currentPageIndex = Len(pages) - 1 =>
          nextPage(State) =
              [State EXCEPT !.notification = "Already on last page"]

\* previousPage has been refused on the first of two pages, with strokes on
\* the document
C17_Witness ==
    /\ notification = "Already on first page"
    /\ currentPageIndex = 0
    /\ Len(pages) = 2
    /\ Len(history) >= 3
(***************************************************************************)
(* The signature pad: pen strokes on the signature canvas and on the main  *)
(* canvas in any interleaving, clearSignature, saveSignature, a reload of  *)
(* the page (new PrescriptionCanvas() with the signature stored so far)    *)
(* and the loads of the stored signature.                                  *)
(***************************************************************************)
\* the page is loaded again: the constructor runs with what localStorage
\* holds; the downloaded file stays on disk
Reload == Wide([InitState(storage) EXCEPT !.download = download])

NextSignature ==
    \/ \E sig \in BOOLEAN : StartDrawing(sig)
    \/ \E sig \in BOOLEAN : Draw(sig)
    \/ \E sig \in BOOLEAN : StopDrawing(sig)
    \/ ClearSignature
    \/ SaveSignature
    \/ SigOnload
    \/ Reload

SpecSignature == Init /\ [][NextSignature]_vars

(***************************************************************************)
(* C18.  No operation on the signature canvas (the begin, the extension    *)
(* and the end of a signature stroke, clearSignature, saveSignature,       *)
(* loadSavedSignature and the onload of the signature Image) adds a        *)
(* history entry, moves the cursor, or changes the page list or the main   *)
(* canvas.                                                                 *)
(***************************************************************************)
mainDocument(s) == <<s.history, s.historyStep, s.pages, s.canvas>>

C18_SignatureLeavesMainDocument ==
    /\ mainDocument(startDrawing(State, TRUE)) = mainDocument(State)
    /\ mainDocument(draw(State, TRUE)) = mainDocument(State)
    /\ mainDocument(stopDrawing(State, TRUE)) = mainDocument(State)
    /\ mainDocument(clearSignature(State)) = mainDocument(State)
    /\ \A stored \in BOOLEAN :
          mainDocument(saveSignature(State, stored)) = mainDocument(State)
    /\ mainDocument(loadSavedSignature(State)) = mainDocument(State)
    /\ \A k \in 1..Len(sigPending) :
          mainDocument(sigOnload(State, k)) = mainDocument(State)

\* a signature was drawn and saved, and a stroke is under way, on a document
\* that holds a stroke
C18_Witness ==
    /\ isDrawing
    /\ sigCanvas.id > 0
    /\ savedSignature = storage
    /\ storage.id > 0
    /\ Len(history) >= 2
(***************************************************************************)
(* The run of C19: at most MaxEvents pointer events (script.k counts them) *)
(* on the main canvas and on the signature canvas in any interleaving:     *)
(* mousedown (or touchstart), mousemove (or touchmove), and the end events *)
(* mouseup, mouseout and touchend.  script.phase is "open" from a          *)
(* mousedown on the main canvas to the next end event on the main canvas;  *)
(* script.n counts the end events on the main canvas.                      *)
(***************************************************************************)
Pointer(t, phase, ends) ==
    /\ script.k < MaxEvents
    /\ Commit(t)
    /\ script' = [script EXCEPT !.phase = phase, !.k = @ + 1, !.n = @ + ends]

PtrMainDown == Pointer(startDrawing(State, FALSE), "open", 0)
PtrMainMove == Pointer(draw(State, FALSE), script.phase, 0)
PtrMainEnd  == Pointer(stopDrawing(State, FALSE), "closed", 1)
PtrSigDown  == Pointer(startDrawing(State, TRUE), script.phase, 0)
PtrSigMove  == Pointer(draw(State, TRUE), script.phase, 0)
PtrSigEnd   == Pointer(stopDrawing(State, TRUE), script.phase, 0)

NextPointer ==
    \/ PtrMainDown
    \/ PtrMainMove
    \/ PtrMainEnd
    \/ PtrSigDown
    \/ PtrSigMove
    \/ PtrSigEnd

SpecPointer == Init /\ [][NextPointer]_vars

(***************************************************************************)
(* C19.  An end event on the main canvas (mouseup, mouseout, touchend)     *)
(* that ends a stroke begun on the main canvas pushes exactly one          *)
(* snapshot, the content of the main canvas, whatever pointer events the   *)
(* signature canvas received in between; an end event on the main canvas   *)
(* with no stroke begun there (a mouseout after the mouseup, an end        *)
(* without a mousedown) pushes nothing.                                    *)
(***************************************************************************)
C19_MainStrokePushesOnce ==
    [][ script'.n = script.n + 1
          => IF script.phase = "open"
             THEN /\ history' = Append(SubSeq(history, 1, historyStep + 1),
                                       toDataURL(canvas))
                  /\ historyStep' = Len(history') - 1
                  /\ canvas' = canvas
             ELSE /\ history' = history
                  /\ historyStep' = historyStep ]_vars
(***************************************************************************)
(* C20.  The import of a file whose text does not parse, or parses to a    *)
(* value without the expected structure (null, an object without a page    *)
(* list), is reported with the notification 'Error loading prescription    *)
(* file' and leaves the page list, the active page index, the main canvas, *)
(* the signature canvas, the history and the cursor as they were, with no  *)
(* load asked for.                                                         *)
(***************************************************************************)
\* the files offered that do not hold a prescription
FailingFiles == {file \in ImportFiles : file.kind # "object" \/ ~file.hasPages}

C20_FailedImportChangesNothing ==
    \A file \in FailingFiles :
        loadPrescription(State, file) =
            [State EXCEPT !.notification = "Error loading prescription file"]
(***************************************************************************)
(* The run of C21: at most MaxEvents pointer events (script.k counts them) *)
(* on the two canvases in any interleaving.  script.phase tells on which   *)
(* canvases a stroke was begun (mousedown) and not ended since (mouseup,   *)
(* mouseout on that canvas): "idle" on none, "main", "sig" or "both".      *)
(***************************************************************************)
begun(phase, isSignature) ==
    IF isSignature
    THEN IF phase \in {"main", "both"} THEN "both" ELSE "sig"
    ELSE IF phase \in {"sig", "both"} THEN "both" ELSE "main"

ended(phase, isSignature) ==
    IF isSignature
    THEN IF phase \in {"main", "both"} THEN "main" ELSE "idle"
    ELSE IF phase \in {"sig", "both"} THEN "sig" ELSE "idle"

Event(t, phase) ==
    /\ script.k < MaxEvents
    /\ Commit(t)
    /\ script' = [script EXCEPT !.phase = phase, !.k = @ + 1]

MoveDown == \E sig \in BOOLEAN :
                Event(startDrawing(State, sig), begun(script.phase, sig))
MoveMove == \E sig \in BOOLEAN :
                Event(draw(State, sig), script.phase)
MoveEnd  == \E sig \in BOOLEAN :
                Event(stopDrawing(State, sig), ended(script.phase, sig))

NextMove == MoveDown \/ MoveMove \/ MoveEnd

SpecMove == Init /\ [][NextMove]_vars

(***************************************************************************)
(* C21.  A pointer-move on a canvas on which no stroke was begun, or on    *)
(* which the stroke was ended, is a no-op: draw changes neither the main   *)
(* canvas, nor the signature canvas, nor the history, nor the pages.       *)
(***************************************************************************)
buffers(s) == <<s.canvas, s.sigCanvas, s.history, s.historyStep, s.pages>>

C21_MoveWithoutStrokeIsNoOp ==
    /\ script.phase \notin {"main", "both"}
          => buffers(draw(State, FALSE)) = buffers(State)
    /\ script.phase \notin {"sig", "both"}
          => buffers(draw(State, TRUE)) = buffers(State)

(***************************************************************************)
(* The run of C22: at most MaxEvents events (script.k counts them), each a *)
(* selection of a tool (toolbar or Alt+1..4), of a colour or of a size, or *)
(* a pointer event on one of the two canvases.  script.phase tells on      *)
(* which canvases a stroke is begun and not ended, as in the run of C21,   *)
(* and script.shown holds, for the main canvas and for the signature       *)
(* canvas, the tool, colour and size selected when the stroke open on that *)
(* canvas began (<<>> when none is open).                                  *)
(***************************************************************************)
Colors == {"#000000", "#ff0000"}
Sizes == {2, 5}

NoStroke == <<<<>>, <<>>>>

selected(s) == <<s.currentTool, s.currentColor, s.currentSize>>

strokes == IF script.shown = <<>> THEN NoStroke ELSE script.shown

Select(t) ==
    /\ script.k < MaxEvents
    /\ Commit(t)
    /\ script' = [script EXCEPT !.k = @ + 1]

StrokeSetTool == \E tool \in Tools : Select(setTool(State, tool))
StrokeSetColor == \E color \in Colors : Select(setColor(State, color))
StrokeSetSize == \E size \in Sizes : Select(setSize(State, size))

StrokeDown ==
    \E sig \in BOOLEAN :
        /\ script.k < MaxEvents
        /\ Commit(startDrawing(State, sig))
        /\ script' = [script EXCEPT
                        !.phase = begun(@, sig),
                        !.k = @ + 1,
                        !.shown = [strokes EXCEPT ![IF sig THEN 2 ELSE 1] =
                                                      selected(State)]]
StrokeMove ==
    \E sig \in BOOLEAN : Select(draw(State, sig))

StrokeEnd ==
    \E sig \in BOOLEAN :
        /\ script.k < MaxEvents
        /\ Commit(stopDrawing(State, sig))
        /\ script' = [script EXCEPT
                        !.phase = ended(@, sig),
                        !.k = @ + 1,
                        !.shown = [strokes EXCEPT ![IF sig THEN 2 ELSE 1] =
                                                      <<>>]]

NextStroke == \/ StrokeSetTool \/ StrokeSetColor \/ StrokeSetSize
              \/ StrokeDown \/ StrokeMove \/ StrokeEnd

SpecStroke == Init /\ [][NextStroke]_vars

(***************************************************************************)
(* C22.  While a stroke is open on a canvas, the rendering parameters of   *)
(* that canvas's context are those of the fixed table for the tool, the    *)
(* colour and the width w selected when the stroke began: pen normal       *)
(* composition, opacity 1.0, width w; brush normal, 0.8, 1.5 w;            *)
(* highlighter normal, 0.3, 3 w; eraser erase composition, 1.0, 2 w; the   *)
(* stroke colour is the selected colour (the eraser has none).  Opacity is *)
(* in tenths and width in halves of a pixel.                               *)
(***************************************************************************)
C22_StrokeParametersFixedAtBegin ==
    \A sig \in BOOLEAN :
        LET p == strokes[IF sig THEN 2 ELSE 1]
            c == IF sig THEN sigCtx ELSE ctx
        IN  p # <<>> =>
              /\ p[1] = "pen" =>
                    /\ c.globalCompositeOperation = "source-over"
                    /\ c.globalAlpha = 10
                    /\ c.lineWidth = 2 * p[3]
              /\ p[1] = "brush" =>
                    /\ c.globalCompositeOperation = "source-over"
                    /\ c.globalAlpha = 8
                    /\ c.lineWidth = 3 * p[3]
              /\ p[1] = "highlighter" =>
                    /\ c.globalCompositeOperation = "source-over"
                    /\ c.globalAlpha = 3
                    /\ c.lineWidth = 6 * p[3]
              /\ p[1] = "eraser" =>
                    /\ c.globalCompositeOperation = "destination-out"
                    /\ c.globalAlpha = 10
                    /\ c.lineWidth = 4 * p[3]
              /\ p[1] # "eraser" => c.strokeStyle = p[2]

(***************************************************************************)
(* The run of C23: at most MaxEvents operations (script.k counts them)     *)
(* among the selection of a tool, a whole stroke on the main canvas,       *)
(* clearCanvas, undoLast, redoLast, addPage, deletePage, previousPage and  *)
(* nextPage, in any order; the Images asked for complete in any order and  *)
(* at any time, as nothing in the code waits for them.                     *)
(***************************************************************************)
SlotSetTool      == \E tool \in Tools : Select(setTool(State, tool))
SlotStroke       == Select(stroke(State))
SlotClearCanvas  == Select(clearCanvas(State))
SlotUndoLast     == Select(undoLast(State))
SlotRedoLast     == Select(redoLast(State))
SlotAddPage      == Select(addPage(State))
SlotDeletePage   == Select(deletePage(State))
SlotPreviousPage == Select(previousPage(State))
SlotNextPage     == Select(nextPage(State))
SlotOnload       == \E k \in 1..Len(pending) :
                        Commit(onload(State, k)) /\ UNCHANGED script

NextSlot == \/ SlotSetTool \/ SlotStroke \/ SlotClearCanvas
            \/ SlotUndoLast \/ SlotRedoLast
            \/ SlotAddPage \/ SlotDeletePage
            \/ SlotPreviousPage \/ SlotNextPage
            \/ SlotOnload

SpecSlot == Init /\ [][NextSlot]_vars

(***************************************************************************)
(* C23.  Whenever no stroke is in progress and no Image is loading, the    *)
(* slot of the active page holds the content of the main canvas:           *)
(* pages[currentPageIndex] = canvas.toDataURL().                           *)
(***************************************************************************)
C23_ActiveSlotIsCanvas ==
    (~isDrawing /\ pending = <<>>)
        => At(pages, currentPageIndex) = toDataURL(canvas)

(***************************************************************************)
(* The run of C24: at most MaxEvents operations (script.k counts them)     *)
(* among a whole stroke on the main canvas, undoLast, redoLast, addPage,   *)
(* previousPage and nextPage; the Images asked for complete in any order   *)
(* and at any time.  No page is deleted, so an index names the same page   *)
(* throughout.  script.shown holds, for each Image still loading, the      *)
(* index of the page that was active when loadCanvasState asked for it.    *)
(***************************************************************************)
Ask(t) ==
    /\ script.k < MaxEvents
    /\ Commit(t)
    /\ script' = [script EXCEPT
                    !.phase = "asked",
                    !.k = @ + 1,
                    !.shown = IF Len(t.pending) > Len(pending)
                              THEN Append(@, t.currentPageIndex)
                              ELSE @]

LoadStroke       == Ask(stroke(State))
LoadUndoLast     == Ask(undoLast(State))
LoadRedoLast     == Ask(redoLast(State))
LoadAddPage      == Ask(addPage(State))
LoadPreviousPage == Ask(previousPage(State))
LoadNextPage     == Ask(nextPage(State))

LoadOnload ==
    \E k \in 1..Len(pending) :
        /\ Commit(onload(State, k))
        /\ script' = [script EXCEPT !.phase = "loaded",
                                    !.shown = Splice1(@, k - 1)]

NextLoad == \/ LoadStroke \/ LoadUndoLast \/ LoadRedoLast
            \/ LoadAddPage \/ LoadPreviousPage \/ LoadNextPage
            \/ LoadOnload

SpecLoad == Init /\ [][NextLoad]_vars

(***************************************************************************)
(* C24.  The completion of a load stores the loaded snapshot into the slot *)
(* of the page that was active when the load was asked for, and changes no *)
(* other slot, whatever the active page is by then.                        *)
(***************************************************************************)
C24_LoadFillsRequestingPage ==
    [][ Len(pending') < Len(pending)
          => \E j \in 1..Len(pending) :
                /\ pending' = Splice1(pending, j - 1)
                /\ pages' = ArraySet(pages, script.shown[j], pending[j]) ]_vars

(***************************************************************************)
(* The run of C25: at most MaxEvents operations (script.k counts them)     *)
(* among a whole stroke on the main canvas, addPage (once page 1 was       *)
(* drawn on), previousPage, nextPage, undoLast and redoLast, each one      *)
(* started when no Image is loading, so that a load completes on the page  *)
(* that asked for it.  No                                                  *)
(* page is deleted, so an index names the same page throughout.            *)
(* script.shown holds, for each entry of the history, the index of the     *)
(* page that was active when saveState took it; script.n is the page of    *)
(* the snapshot that the last undoLast or redoLast asked for, and          *)
(* script.phase is "restored" once that snapshot is loaded.                *)
(***************************************************************************)
origins == IF script.shown = <<>> THEN <<0>> ELSE script.shown

\* an operation that ends with saveState
Taken(t) ==
    /\ script.k < MaxEvents
    /\ pending = <<>>
    /\ Commit(t)
    /\ script' = [script EXCEPT
                    !.phase = "taken",
                    !.k = @ + 1,
                    !.shown = Append(SubSeq(origins, 1, Len(t.history) - 1),
                                     t.currentPageIndex)]

\* a page switch
Switched(t) ==
    /\ script.k < MaxEvents
    /\ pending = <<>>
    /\ Commit(t)
    /\ script' = [script EXCEPT !.phase = "switched", !.k = @ + 1,
                                !.shown = origins]

\* undoLast or redoLast
Restore(t) ==
    /\ script.k < MaxEvents
    /\ pending = <<>>
    /\ Commit(t)
    /\ script' = [script EXCEPT
                    !.phase = IF t.pending # <<>> THEN "asked" ELSE @,
                    !.n = IF t.pending # <<>>
                          THEN origins[t.historyStep + 1] ELSE @,
                    !.k = @ + 1,
                    !.shown = origins]

CrossStroke       == Taken(stroke(State))
CrossAddPage      == script.phase # "idle" /\ Taken(addPage(State))
CrossPreviousPage == Switched(previousPage(State))
CrossNextPage     == Switched(nextPage(State))
CrossUndoLast     == Restore(undoLast(State))
CrossRedoLast     == Restore(redoLast(State))

CrossOnload ==
    /\ pending # <<>>
    /\ Commit(onload(State, 1))
    /\ script' = [script EXCEPT
                    !.phase = IF @ = "asked" THEN "restored" ELSE @]

NextCross == \/ CrossStroke \/ CrossAddPage
             \/ CrossPreviousPage \/ CrossNextPage
             \/ CrossUndoLast \/ CrossRedoLast
             \/ CrossOnload

SpecCross == Init /\ [][NextCross]_vars

(***************************************************************************)
(* C25.  Once the snapshot asked for by undoLast or redoLast is loaded,    *)
(* what the canvas shows and what the slot of the active page holds is a   *)
(* snapshot that saveState took while that same page was active.           *)
(***************************************************************************)
C25_UndoRedoStayOnPage ==
    script.phase = "restored"
        => /\ At(pages, currentPageIndex) = At(history, historyStep)
           /\ origins[historyStep + 1] = currentPageIndex
           /\ script.n = currentPageIndex

(***************************************************************************)
(* The run of C26: at most MaxFree operations (script.k counts them) among *)
(* the selection of a tool, a whole stroke on the main canvas, addPage,    *)
(* previousPage and nextPage, each started when no Image is loading; then  *)
(* clearCanvas, then undoLast at once, then the completion of the load     *)
(* that the undo asked for.  script.shown holds the canvas, the pages and  *)
(* the history as they were just before clearCanvas.                       *)
(***************************************************************************)
Before(t) ==
    /\ script.phase \in {"idle", "before"}
    /\ script.k < MaxFree
    /\ pending = <<>>
    /\ Commit(t)
    /\ script' = [script EXCEPT !.phase = "before", !.k = @ + 1]

ClearSetTool      == \E tool \in Tools : Before(setTool(State, tool))
ClearStroke       == Before(stroke(State))
ClearAddPage      == Before(addPage(State))
ClearPreviousPage == Before(previousPage(State))
ClearNextPage     == Before(nextPage(State))

ClearOnload ==
    /\ pending # <<>>
    /\ Commit(onload(State, 1))
    /\ script' = [script EXCEPT
                    !.phase = IF @ = "undone" THEN "restored" ELSE @]

ClearClearCanvas ==
    /\ script.phase \in {"idle", "before"}
    /\ pending = <<>>
    /\ Commit(clearCanvas(State))
    /\ script' = [script EXCEPT !.phase = "cleared",
                                !.shown = <<canvas, pages, history>>]

ClearUndoLast ==
    /\ script.phase = "cleared"
    /\ Commit(undoLast(State))
    /\ script' = [script EXCEPT !.phase = "undone"]

NextClear == \/ ClearSetTool \/ ClearStroke \/ ClearAddPage
             \/ ClearPreviousPage \/ ClearNextPage \/ ClearOnload
             \/ ClearClearCanvas \/ ClearUndoLast

SpecClear == Init /\ [][NextClear]_vars

(***************************************************************************)
(* C26.  clearCanvas leaves the main canvas blank (white all over, or     *)
(* with no pixel left), pushes exactly one snapshot, that of the blank     *)
(* canvas, and writes the slot of the active page alone; once the undoLast *)
(* that follows it at once has loaded, the canvas and the pages are what   *)
(* they were just before the clear.                                        *)
(***************************************************************************)
C26_ClearCanvasIsUndoable ==
    /\ script.phase = "cleared"
          => /\ canvas \in {White, Transparent}
             /\ history = Append(script.shown[3], toDataURL(canvas))
             /\ pages = ArraySet(script.shown[2], currentPageIndex,
                                 toDataURL(canvas))
    /\ script.phase = "restored"
          => /\ canvas = script.shown[1]
             /\ pages = script.shown[2]
====
